---- MODULE Spec2Model ----
(***************************************************************************)
(* Model of the site crawler of simple_scraper.py: scrape_webpage,         *)
(* get_links, scrape_website, save_results and main.                       *)
(*                                                                         *)
(* A URL is a record [host, path, frag]: host is the network location,     *)
(* path the sequence of path segments ("/" is <<"">>, "/a" is <<"a">>,     *)
(* "/d/" is <<"d", "">>), frag the fragment ("" when there is none).       *)
(* The network is the environment: a site maps every page to its markup    *)
(* (the sequence of hrefs of its anchors), and every request either raises *)
(* or returns a response with a success or non-success status.             *)
(***************************************************************************)
EXTENDS Integers, Sequences, FiniteSets, TLC

VARIABLES
    args,       \* parsed command line: url, max_pages, max_depth, single
                \* (args.format is read by save_results only and drawn there)
    site,       \* environment: page URL -> markup served for it
    pc,         \* position in main / scrape_website
    visited,    \* scrape_website: set of URLs scraped successfully
    to_visit,   \* scrape_website: list of <<url, depth>> entries
    results,    \* list of records
    cur,        \* scrape_website: the entry bound by url, depth = to_visit.pop(0)
    requests,   \* log of the HTTP GETs issued so far
    popped,     \* log of the entries popped from to_visit
    depths,     \* depths[i] is the depth at which results[i] was appended
    files,      \* the files written by save_results, in the order written
    io          \* input and output of a function applied on its own

vars == <<args, site, pc, visited, to_visit, results, cur, requests, popped,
          depths, files, io>>

-----------------------------------------------------------------------------
(* Bounds of the model *)

MaxPages == 3
MaxDepth == 2
MaxFailures == 1
MaxClock == 0
MaxKids == 2
MaxRecords == 2
MaxHrefs == 2
MaxRuns == 2
MaxSeconds == 1
MaxUrls == 2

-----------------------------------------------------------------------------
(* URLs and hrefs *)

Url(h, p, f) == [host |-> h, path |-> p, frag |-> f]

Abs(h, p, f) == [kind |-> "abs", host |-> h, path |-> p, frag |-> f]
RootRel(p, f) == [kind |-> "root", host |-> "", path |-> p, frag |-> f]
Rel(p, f) == [kind |-> "rel", host |-> "", path |-> p, frag |-> f]
FragOnly(f) == [kind |-> "frag", host |-> "", path |-> <<>>, frag |-> f]

Range(s) == {s[i] : i \in DOMAIN s}

Front(s) == IF s = <<>> THEN <<>> ELSE SubSeq(s, 1, Len(s) - 1)

\* urllib.parse.urljoin(base, href)
urljoin(base, href) ==
    CASE href.kind = "abs" -> Url(href.host, href.path, href.frag)
      [] href.kind = "root" -> Url(base.host, href.path, href.frag)
      [] href.kind = "rel" -> Url(base.host, Front(base.path) \o href.path, href.frag)
      [] href.kind = "frag" -> Url(base.host, base.path, href.frag)

\* urlparse(u).netloc
netloc(u) == u.host

\* Mutant of StripFragment: the fragment is kept
StripFragmentKeep(u) == u

\* u.split('#')[0]
StripFragment(u) == [u EXCEPT !.frag = ""]

-----------------------------------------------------------------------------
(* Markup trees and text *)

\* A string is a sequence of characters. SP and NL are the whitespace
\* characters, QUOTE and BSLASH the characters a JSON string escapes.
SP == " "
NL == "NL"
QUOTE == "QUOTE"
BSLASH == "BSLASH"
Whitespace == {SP, NL}

\* A node of the parse tree: a text node, or an element with its children.
Text(chars) == [tag |-> "#text", text |-> chars, kids |-> <<>>]
Elem(tag, kids) == [tag |-> tag, text |-> <<>>, kids |-> kids]

NoNode == Elem("#none", <<>>)

\* scrape_webpage: the elements removed before extraction
NoiseTags == {"script", "style", "nav", "footer", "header"}

\* Mutant of IsNoise: nav elements are kept
IsNoiseNoNav(node) == node.tag \in NoiseTags \ {"nav"}

\* scrape_webpage: the test of the decompose loop
IsNoise(node) == node.tag \in NoiseTags

\* The element of a set of one element. An operator that walks a sequence
\* takes it as The({... : s \in {sequence}}), so that the sequence is
\* evaluated once however often the walk reads it.
The(S) == CHOOSE x \in S : TRUE

\* for script in soup([...]): script.decompose()
RECURSIVE Decompose(_)
Decompose(nodes) ==
    The({IF s = <<>> THEN <<>>
         ELSE IF IsNoise(Head(s)) THEN Decompose(Tail(s))
         ELSE <<[Head(s) EXCEPT !.kids = Decompose(Head(s).kids)]>> \o Decompose(Tail(s)) :
         s \in {nodes}})

\* soup.find(tag): the first element with the tag in document order
RECURSIVE Find(_, _)
Find(nodes, tag) ==
    The({IF s = <<>> THEN NoNode
         ELSE IF Head(s).tag = tag THEN Head(s)
         ELSE The({IF below # NoNode THEN below ELSE Find(Tail(s), tag) :
                   below \in {Find(Head(s).kids, tag)}}) :
         s \in {nodes}})

\* The strings of the text nodes under nodes, in document order
RECURSIVE Strings(_)
Strings(nodes) ==
    The({IF s = <<>> THEN <<>>
         ELSE (IF Head(s).tag = "#text" THEN <<Head(s).text>> ELSE Strings(Head(s).kids))
              \o Strings(Tail(s)) :
         s \in {nodes}})

\* str.strip()
RECURSIVE LStrip(_)
LStrip(chars) ==
    The({IF s # <<>> /\ Head(s) \in Whitespace THEN LStrip(Tail(s)) ELSE s : s \in {chars}})

RECURSIVE RStrip(_)
RStrip(chars) ==
    The({IF s # <<>> /\ s[Len(s)] \in Whitespace THEN RStrip(Front(s)) ELSE s : s \in {chars}})

Strip(chars) == RStrip(LStrip(chars))

\* sep.join(strs)
RECURSIVE Join(_, _)
Join(strs, sep) ==
    The({IF s = <<>> THEN <<>>
         ELSE IF Len(s) = 1 THEN s[1]
         ELSE s[1] \o sep \o Join(Tail(s), sep) :
         s \in {strs}})

\* [f(x) for x in strs if x.strip()], with f the identity or strip
RECURSIVE StripAll(_)
StripAll(strs) ==
    The({IF s = <<>> THEN <<>>
         ELSE (IF Strip(Head(s)) = <<>> THEN <<>> ELSE <<Strip(Head(s))>>)
              \o StripAll(Tail(s)) :
         s \in {strs}})

\* node.get_text(separator='\n', strip=True)
GetTextStripped(nodes) == Join(StripAll(Strings(nodes)), <<NL>>)

\* node.get_text()
GetText(nodes) == Join(Strings(nodes), <<>>)

\* The index of the first line break of chars, 0 when it has none
FirstNL(chars) ==
    The({IF nls = {} THEN 0 ELSE CHOOSE i \in nls : \A j \in nls : i <= j :
         nls \in {{i \in DOMAIN chars : chars[i] = NL}}})

\* str.splitlines()
RECURSIVE SplitLines(_)
SplitLines(chars) ==
    The({IF s = <<>> THEN <<>>
         ELSE IF k = 0 THEN <<s>>
         ELSE <<SubSeq(s, 1, k - 1)>> \o SplitLines(SubSeq(s, k + 1, Len(s))) :
         s \in {chars}, k \in {FirstNL(chars)}})

\* scrape_webpage, lines 40-41: the clean-up of the text
CleanLines(text) == Join(StripAll(SplitLines(text)), <<NL>>)

\* Mutant of ContentRegion: article is preferred to main
ContentRegionArticleFirst(soup) ==
    IF Find(soup, "article") # NoNode THEN Find(soup, "article")
    ELSE IF Find(soup, "main") # NoNode THEN Find(soup, "main")
    ELSE Find(soup, "body")

\* scrape_webpage, line 32: soup.find('main') or soup.find('article') or soup.body
ContentRegion(soup) ==
    IF Find(soup, "main") # NoNode THEN Find(soup, "main")
    ELSE IF Find(soup, "article") # NoNode THEN Find(soup, "article")
    ELSE Find(soup, "body")

\* scrape_webpage, lines 34-41: the content of the record
ContentOf(soup) ==
    LET main_content == ContentRegion(soup) IN
    CleanLines(IF main_content # NoNode
               THEN GetTextStripped(<<main_content>>)
               ELSE GetTextStripped(soup))

\* The string of a URL
UrlString(u) ==
    <<"https://", u.host>>
    \o Join([i \in DOMAIN u.path |-> <<"/", u.path[i]>>], <<>>)
    \o (IF u.frag = "" THEN <<>> ELSE <<"#", u.frag>>)

\* scrape_webpage, lines 28-29: the title of the record
TitleOf(soup, url) ==
    IF Find(soup, "title") # NoNode THEN GetText(<<Find(soup, "title")>>) ELSE UrlString(url)

-----------------------------------------------------------------------------
(* The environment: sites and responses *)

ExHost == "ex.test"
OtherHost == "other.test"

PageRoot == Url(ExHost, <<"">>, "")
PageA == Url(ExHost, <<"a">>, "")
PageB == Url(ExHost, <<"b">>, "")
PageX == Url(OtherHost, <<"x">>, "")

MkEmpty == <<>>
MkHome == <<RootRel(<<"a">>, ""), RootRel(<<"b">>, ""), Abs(OtherHost, <<"x">>, "")>>
MkNext == <<Rel(<<"b">>, ""), FragOnly("top")>>
MkOff == <<Abs(OtherHost, <<"x">>, ""), RootRel(<<"b">>, "s1"), RootRel(<<"b">>, "s2")>>
MkLoop == <<RootRel(<<"a">>, "x"), RootRel(<<"">>, "")>>
MkX == <<Abs(ExHost, <<"b">>, ""), Abs(OtherHost, <<"x">>, "y")>>

Markups == {MkEmpty, MkHome, MkNext, MkOff, MkLoop}

Sites == {s \in [{PageRoot, PageA, PageB, PageX} -> Markups \cup {MkX}] :
             /\ s[PageX] = MkX
             /\ \A p \in {PageRoot, PageA, PageB} : s[p] \in Markups}

StartUrls == {PageRoot, Url(ExHost, <<"">>, "intro")}

\* The documents of the pages: / has a title and a main region among noise,
\* /a an article and no title, /b neither a body nor a title, and the
\* off-origin page only white space.
DocRoot ==
    <<Elem("html", <<
        Elem("head", <<Elem("title", <<Text(<<"T", SP>>)>>), Elem("style", <<Text(<<"s">>)>>)>>),
        Elem("body", <<
            Elem("header", <<Text(<<"h">>)>>),
            Elem("nav", <<Elem("main", <<Text(<<"n">>)>>)>>),
            Elem("main", <<Text(<<SP, "m", NL, SP>>), Elem("p", <<Text(<<QUOTE, "q", SP>>)>>)>>),
            Elem("article", <<Text(<<"r">>)>>),
            Elem("footer", <<Text(<<"f">>)>>)>>)>>)>>

DocA ==
    <<Elem("html", <<
        Elem("body", <<
            Text(<<"o">>),
            Elem("article", <<Text(<<"a", BSLASH, "n">>), Elem("script", <<Text(<<"j">>)>>)>>)>>)>>)>>

DocB == <<Elem("p", <<Text(<<NL, "b", NL, NL, "c", SP>>)>>), Text(<<SP>>)>>

DocX == <<Elem("div", <<Text(<<SP, NL>>)>>)>>

PageDoc(u) ==
    CASE StripFragment(u) = PageRoot -> DocRoot
      [] StripFragment(u) = PageA -> DocA
      [] StripFragment(u) = PageB -> DocB
      [] OTHER -> DocX

\* The markup a server returns for u: the fragment is not sent to the server.
Body(u) == IF StripFragment(u) \in DOMAIN site THEN site[StripFragment(u)] ELSE <<>>

\* What requests.get(u, ...) can do: raise (timeout, DNS, connection), or
\* return a response. A response with a non-success status carries markup
\* too, here the markup of the page. body holds the hrefs of the anchors of
\* the markup and doc its parse tree.
Response(raised, ok, body, doc) == [raised |-> raised, ok |-> ok, body |-> body, doc |-> doc]

Responses(u) ==
    {Response(TRUE, FALSE, <<>>, <<>>)}
    \cup {Response(FALSE, s, Body(u), PageDoc(u)) : s \in BOOLEAN}

Failed(resp) == resp.raised \/ ~resp.ok

NFailures == Cardinality({i \in DOMAIN requests : Failed(requests[i].resp)})

\* The responses the network may give next: at most MaxFailures requests of a
\* run fail.
Allowed(u) == {r \in Responses(u) : Failed(r) => NFailures < MaxFailures}

-----------------------------------------------------------------------------
(* simple_scraper.py *)

None == [url |-> Url("", <<>>, "none"), title |-> <<>>, content |-> <<>>, length |-> 0,
         timestamp |-> 0]

\* Mutant of scrape_webpage: the status of the response is not tested
scrape_webpageNoStatus(url, resp, now) ==
    IF resp.raised THEN None
    ELSE LET soup == Decompose(resp.doc) IN
         [url |-> url,
          title |-> TitleOf(soup, url),
          content |-> ContentOf(soup),
          length |-> Len(ContentOf(soup)),
          timestamp |-> now]

\* scrape_webpage(url) at time now, given the response of its request
scrape_webpage(url, resp, now) ==
    IF resp.raised \/ ~resp.ok THEN None
    ELSE LET soup == Decompose(resp.doc) IN
         [url |-> url,
          title |-> TitleOf(soup, url),
          content |-> ContentOf(soup),
          length |-> Len(ContentOf(soup)),
          timestamp |-> now]

\* datetime.now() at the next request: the time advances with every request
Now == Len(requests) + 1

\* Mutant of SameDomain: the domain test is dropped
SameDomainAny(full_url, base_url) == TRUE

\* get_links: the same-domain test
SameDomain(full_url, base_url) == netloc(full_url) = netloc(base_url)

\* Mutant of get_links: a request that raises is repeated and answered
get_linksRetried(url, base_url, resp) ==
    {StripFragment(urljoin(base_url, h)) :
        h \in {x \in Range(IF resp.raised THEN Body(url) ELSE resp.body) :
                  SameDomain(urljoin(base_url, x), base_url)}}

\* get_links(url, base_url), given the response of its request
get_links(url, base_url, resp) ==
    IF resp.raised THEN {}
    ELSE {StripFragment(urljoin(base_url, h)) :
             h \in {x \in Range(resp.body) : SameDomain(urljoin(base_url, x), base_url)}}

\* Mutant of NewLinks: links are resolved against the page they were found on
NewLinksPageBase(url, start_url, resp) == get_links(url, url, resp)

\* scrape_website, line 107: new_links = get_links(url, start_url)
NewLinks(url, start_url, resp) == get_links(url, start_url, resp)

\* Mutant of LoopGuard: the page budget is not tested
LoopGuardNoBudget(tv, vis, max_pages) == tv # <<>>

\* Mutant of LoopGuard: off by one in the budget test
LoopGuardOffByOne(tv, vis, max_pages) == tv # <<>> /\ Cardinality(vis) <= max_pages

\* scrape_website: the while condition
LoopGuard(tv, vis, max_pages) == tv # <<>> /\ Cardinality(vis) < max_pages

\* Mutant of Pop: to_visit.pop() takes the last entry
PopLast(tv) == [entry |-> tv[Len(tv)], rest |-> Front(tv)]

\* scrape_website: to_visit.pop(0)
Pop(tv) == [entry |-> Head(tv), rest |-> Tail(tv)]

\* Mutant of Skip: the depth of the entry is not tested
SkipVisitedOnly(url, depth, vis, max_depth) == url \in vis

\* scrape_website: the continue condition
Skip(url, depth, vis, max_depth) == url \in vis \/ depth > max_depth

\* Mutant of HasData: the body of 'if data:' runs for a failed scrape too
HasDataAlways(data) == TRUE

\* scrape_website: the test 'if data:' of line 101
HasData(data) == data # None

\* scrape_website: visited.add(url), line 103
AddVisited(vis, url) == vis \cup {url}

\* scrape_website: results after the page was scraped
AddResult(res, data) == IF data # None THEN Append(res, data) ELSE res

\* Mutant of Expand: links are expanded at max_depth too
ExpandAtMaxDepth(depth, max_depth) == depth <= max_depth

\* scrape_website: the condition for expanding links
Expand(depth, max_depth) == depth < max_depth

\* Mutant of ChildDepth: the link inherits the depth of its page
ChildDepthSame(depth) == depth

\* scrape_website: depth of a pushed link
ChildDepth(depth) == depth + 1

\* The orders in which a set can be iterated
Orders(S) == {o \in [1..Cardinality(S) -> S] : \A i, j \in DOMAIN o : o[i] = o[j] => i = j}

\* scrape_website: to_visit after the loop over new_links, iterated in order o
PushLinks(tv, o, vis, depth) ==
    LET keep(l) == l \notin vis
    IN  tv \o [i \in DOMAIN SelectSeq(o, keep) |-> <<SelectSeq(o, keep)[i], ChildDepth(depth)>>]

\* Mutant of IsSingle: the flag is ignored and main always crawls
IsSingleNever(a) == FALSE

\* main: the branch on args.single
IsSingle(a) == a.single

Request(fn, url, resp) == [fn |-> fn, url |-> url, resp |-> resp]

\* main: the choices of --format
Formats == {"json", "txt", "markdown"}

\* The values datetime.now() can take, at the resolution of one second
Clock == 0..MaxClock

\* The seconds datetime.now() can show while save_results runs, when a second
\* can pass between two reads
Seconds == 0..MaxSeconds

\* The decimal digits of a natural number, as str(n) writes them
DigitChars == <<"0", "1", "2", "3", "4", "5", "6", "7", "8", "9">>

RECURSIVE IntToDigits(_)
IntToDigits(n) ==
    IF n < 10 THEN <<DigitChars[n + 1]>>
    ELSE IntToDigits(n \div 10) \o <<DigitChars[(n % 10) + 1]>>

DigitValue(c) == CHOOSE d \in 0..9 : DigitChars[d + 1] = c

\* int(digits)
RECURSIVE DigitsToInt(_)
DigitsToInt(digits) ==
    IF digits = <<>> THEN 0
    ELSE 10 * DigitsToInt(Front(digits)) + DigitValue(digits[Len(digits)])

\* Mutant of EscapeChar: the backslash is written as it is
EscapeCharNoBackslash(c) ==
    CASE c = QUOTE -> <<BSLASH, QUOTE>>
      [] c = NL -> <<BSLASH, "n">>
      [] OTHER -> <<c>>

\* json.dump, ensure_ascii=False: the escape of one character of a string
EscapeChar(c) ==
    CASE c = QUOTE -> <<BSLASH, QUOTE>>
      [] c = BSLASH -> <<BSLASH, BSLASH>>
      [] c = NL -> <<BSLASH, "n">>
      [] OTHER -> <<c>>

\* json.dump: the literal of a string
JsonString(str) ==
    The({<<QUOTE>> \o Join([i \in DOMAIN s |-> EscapeChar(s[i])], <<>>) \o <<QUOTE>> :
         s \in {str}})

\* json.dump: the literal of an integer
JsonInt(n) == IntToDigits(n)

\* datetime.isoformat() of a time
IsoFormat(t) == <<"T">> \o IntToDigits(t)

\* json.dump of one record of scrape_webpage (lines 43-49): its members in
\* the order of the keys, each a key and the literal of its value
JsonObject(r) ==
    << <<"url", JsonString(UrlString(r.url))>>,
       <<"title", JsonString(r.title)>>,
       <<"content", JsonString(r.content)>>,
       <<"length", JsonInt(r.length)>>,
       <<"timestamp", JsonString(IsoFormat(r.timestamp))>> >>

\* save_results, format json: the array written, one object per record (white
\* space and punctuation between the literals are not modelled)
JsonFile(res) == [i \in DOMAIN res |-> JsonObject(res[i])]

RULE == "=" \* stands for the line '=' * 80

\* save_results, format txt: the characters written
TxtFile(res) ==
    Join([i \in DOMAIN res |->
            <<"URL: ">> \o UrlString(res[i].url) \o <<NL>>
            \o <<"Title: ">> \o res[i].title \o <<NL>>
            \o <<RULE, NL>>
            \o res[i].content
            \o <<NL, NL, RULE, NL, NL>>], <<>>)

\* save_results, format markdown: the characters written; scraped_at is the
\* value of the datetime.now() of line 139
MarkdownFile(res, scraped_at) ==
    <<"# Scraped Documentation", NL, NL>>
    \o <<"**Scraped at:** ">> \o IntToDigits(scraped_at) \o <<NL, NL>>
    \o <<"**Total pages:** ">> \o IntToDigits(Len(res)) \o <<NL, NL>>
    \o <<"---", NL, NL>>
    \o Join([i \in DOMAIN res |->
               <<"## ">> \o IntToDigits(i) \o <<". ">> \o res[i].title \o <<NL, NL>>
               \o <<"**URL:** ">> \o UrlString(res[i].url) \o <<NL, NL>>
               \o res[i].content
               \o <<NL, NL, "---", NL, NL>>], <<>>)

\* save_results: what is written for a format
FileContent(res, output_format, scraped_at) ==
    CASE output_format = "json" -> JsonFile(res)
      [] output_format = "txt" -> TxtFile(res)
      [] output_format = "markdown" -> MarkdownFile(res, scraped_at)

\* json.load: the string of a string literal
RECURSIVE Unescape(_)
Unescape(chars) ==
    IF chars = <<>> THEN <<>>
    ELSE IF Head(chars) = BSLASH /\ Len(chars) >= 2
    THEN (CASE chars[2] = "n" -> <<NL>>
            [] OTHER -> <<chars[2]>>) \o Unescape(Tail(Tail(chars)))
    ELSE <<Head(chars)>> \o Unescape(Tail(chars))

\* json.load: the value of a literal
JsonValue(lit) ==
    IF Head(lit) = QUOTE THEN Unescape(SubSeq(lit, 2, Len(lit) - 1))
    ELSE DigitsToInt(lit)

\* json.load: the dict of an object, the last member of a key winning
JsonDict(obj) ==
    [k \in {obj[i][1] : i \in DOMAIN obj} |->
        JsonValue(obj[CHOOSE i \in DOMAIN obj :
                        obj[i][1] = k /\ \A j \in DOMAIN obj : obj[j][1] = k => j <= i][2])]

\* json.load of a file written as an array of objects
json_load(content) == [i \in DOMAIN content |-> JsonDict(content[i])]

\* Mutant of Ext: the format name is used as the extension
ExtIsFormat(output_format) == output_format

\* save_results: the extension of the file written for a format
Ext(output_format) ==
    CASE output_format = "json" -> "json"
      [] output_format = "txt" -> "txt"
      [] output_format = "markdown" -> "md"

\* save_results: f'scraped_data_{timestamp}.<ext>'
Filename(timestamp, ext) == [prefix |-> "scraped_data_", stamp |-> timestamp, ext |-> ext]

\* save_results: the values the datetime.now() of line 139 can give when the
\* one of line 118 gave now. Only the markdown branch reads the clock again;
\* datetime.now() is local wall time, so the second read can give any value,
\* one before the first included.
ScrapedAt(output_format, now, clock) ==
    IF output_format = "markdown" THEN clock ELSE {now}

\* save_results(results, output_format): the file it writes when the
\* datetime.now() of line 118 gives now and the one of line 139 scraped_at
save_results(res, output_format, now, scraped_at) ==
    [name |-> Filename(now, Ext(output_format)),
     format |-> output_format,
     content |-> FileContent(res, output_format, scraped_at)]

-----------------------------------------------------------------------------
(* chatbot_with_context.py *)

Context(text) == [kind |-> "context", text |-> text]
LoadNone == [kind |-> "None", text |-> <<>>]
LoadRaised == [kind |-> "raised", text |-> <<>>]

\* load_scraped_data: the context built from the items of a json file
JsonContext(data) ==
    Join([i \in DOMAIN data |->
            <<"Source: ">> \o data[i]["url"] \o <<NL>>
            \o <<"Title: ">> \o data[i]["title"] \o <<NL>>
            \o data[i]["content"]], <<NL, NL>>)

\* Mutant of IsTextSuffix: only .txt files are read as text
IsTextSuffixTxtOnly(ext) == ext \in {"txt"}

\* load_scraped_data: path.suffix in ['.md', '.txt']
IsTextSuffix(ext) == ext \in {"md", "txt"}

\* load_scraped_data(file_path) for a file that exists
load_scraped_data(file) ==
    IF file.name.ext = "json"
    THEN LET data == json_load(file.content) IN
         IF \A i \in DOMAIN data : {"url", "title", "content"} \subseteq DOMAIN data[i]
         THEN Context(JsonContext(data))
         ELSE LoadRaised
    ELSE IF IsTextSuffix(file.name.ext) THEN Context(file.content)
    ELSE LoadNone

-----------------------------------------------------------------------------
(* chatbot_with_url_scraping.py *)

\* scrape_url: the number of characters of the text that are returned
ContentLimit == 15000

\* text[:n]
Prefix(chars, n) == SubSeq(chars, 1, IF Len(chars) < n THEN Len(chars) ELSE n)

\* scrape_url: the value returned when the request or the parse raised e
UrlFailure(url, e) == [success |-> FALSE, url |-> url, error |-> e]

\* Mutant of scrape_url: length is measured after the text is cut
scrape_urlLengthOfContent(url, resp) ==
    IF resp.raised THEN UrlFailure(url, "ConnectionError")
    ELSE IF ~resp.ok THEN UrlFailure(url, "HTTPError")
    ELSE The({[success |-> TRUE,
               url |-> url,
               title |-> TitleOf(Decompose(resp.doc), url),
               content |-> Prefix(text, ContentLimit),
               length |-> Len(Prefix(text, ContentLimit))] :
              text \in {ContentOf(Decompose(resp.doc))}})

\* scrape_url(url), given the response of its request
scrape_url(url, resp) ==
    IF resp.raised THEN UrlFailure(url, "ConnectionError")
    ELSE IF ~resp.ok THEN UrlFailure(url, "HTTPError")
    ELSE The({[success |-> TRUE,
               url |-> url,
               title |-> TitleOf(Decompose(resp.doc), url),
               content |-> Prefix(text, ContentLimit),
               length |-> Len(text)] :
              text \in {ContentOf(Decompose(resp.doc))}})

\* main: scraped_content, the context of the prompt, None when nothing was
\* scraped
ScrapedContent(scraped_data) ==
    IF scraped_data = <<>> THEN [kind |-> "None", text |-> <<>>]
    ELSE [kind |-> "context",
          text |-> Join([i \in DOMAIN scraped_data |->
                           <<"URL: ">> \o UrlString(scraped_data[i].url) \o <<NL>>
                           \o <<"Title: ">> \o scraped_data[i].title \o <<NL, NL>>
                           \o scraped_data[i].content],
                        <<NL, NL, "---", NL, NL>>)]

NoIO == [in |-> <<>>, out |-> <<>>]

-----------------------------------------------------------------------------
(* State machine *)

Init ==
    /\ args \in [url : StartUrls, max_pages : (0 - 1)..MaxPages,
                 max_depth : (0 - 1)..MaxDepth, single : BOOLEAN]
    /\ site \in Sites
    /\ pc = "main"
    /\ visited = {}
    /\ to_visit = <<>>
    /\ results = <<>>
    /\ cur = <<args.url, 0>>
    /\ requests = <<>>
    /\ popped = <<>>
    /\ depths = <<>>
    /\ files = <<>>
    /\ io = NoIO

\* main, --single: scrape_webpage(args.url), then save_results if it succeeded
MainSingle ==
    /\ pc = "main"
    /\ IsSingle(args)
    /\ \E resp \in Allowed(args.url) :
        \E result \in {scrape_webpage(args.url, resp, Now)} :
        /\ requests' = Append(requests, Request("scrape_webpage", args.url, resp))
        /\ results' = IF result # None THEN <<result>> ELSE results
        /\ depths' = IF result # None THEN <<0>> ELSE depths
        /\ \E fmt \in Formats, now \in Clock :
            \E scraped_at \in ScrapedAt(fmt, now, Clock) :
            files' = IF result # None
                     THEN Append(files, save_results(<<result>>, fmt, now, scraped_at))
                     ELSE files
    /\ pc' = "done"
    /\ UNCHANGED <<io, args, site, visited, to_visit, cur, popped>>

\* main, crawl mode: scrape_website starts, lines 84-86
StartCrawl ==
    /\ pc = "main"
    /\ ~IsSingle(args)
    /\ visited' = {}
    /\ to_visit' = <<<<args.url, 0>>>>
    /\ results' = <<>>
    /\ pc' = "while"
    /\ UNCHANGED <<io, args, site, cur, requests, popped, depths, files>>

\* scrape_website: the loop condition holds, an entry is popped and tested
PopEntry ==
    /\ pc = "while"
    /\ LoopGuard(to_visit, visited, args.max_pages)
    /\ LET p == Pop(to_visit) IN
        /\ cur' = p.entry
        /\ to_visit' = p.rest
        /\ popped' = Append(popped, p.entry)
        /\ pc' = IF Skip(p.entry[1], p.entry[2], visited, args.max_depth)
                 THEN "while" ELSE "scrape"
    /\ UNCHANGED <<io, args, site, visited, results, requests, depths, files>>

\* scrape_website: data = scrape_webpage(url), the test of data and
\* results.append(data), lines 100-102
ScrapePage ==
    /\ pc = "scrape"
    /\ \E resp \in Allowed(cur[1]) :
        \E data \in {scrape_webpage(cur[1], resp, Now)} :
        /\ requests' = Append(requests, Request("scrape_webpage", cur[1], resp))
        /\ results' = AddResult(results, data)
        /\ depths' = IF data # None THEN Append(depths, cur[2]) ELSE depths
        /\ pc' = IF HasData(data) THEN "visit" ELSE "while"
    /\ UNCHANGED <<io, args, site, visited, to_visit, cur, popped, files>>

\* scrape_website: visited.add(url) and the test of the depth, lines 103-106
MarkVisited ==
    /\ pc = "visit"
    /\ visited' = AddVisited(visited, cur[1])
    /\ pc' = IF Expand(cur[2], args.max_depth) THEN "links" ELSE "while"
    /\ UNCHANGED <<io, args, site, to_visit, results, cur, requests, popped, depths, files>>

\* scrape_website: new_links = get_links(url, start_url) and the push loop
ExpandLinks ==
    /\ pc = "links"
    /\ \E resp \in Allowed(cur[1]) :
        LET new_links == NewLinks(cur[1], args.url, resp) IN
        /\ requests' = Append(requests, Request("get_links", cur[1], resp))
        /\ \E o \in Orders(new_links) :
            to_visit' = PushLinks(to_visit, o, visited, cur[2])
    /\ pc' = "while"
    /\ UNCHANGED <<io, args, site, visited, results, cur, popped, depths, files>>

\* scrape_website leaves its loop and returns (lines 112-113); main saves the
\* results if there are any (lines 201-204)
FinishCrawl ==
    /\ pc = "while"
    /\ ~LoopGuard(to_visit, visited, args.max_pages)
    /\ \E fmt \in Formats, now \in Clock :
        \E scraped_at \in ScrapedAt(fmt, now, Clock) :
        files' = IF results # <<>>
                 THEN Append(files, save_results(results, fmt, now, scraped_at))
                 ELSE files
    /\ pc' = "done"
    /\ UNCHANGED <<io, args, site, visited, to_visit, results, cur, requests, popped, depths>>

Next ==
    \/ MainSingle
    \/ StartCrawl
    \/ PopEntry
    \/ ScrapePage
    \/ MarkVisited
    \/ ExpandLinks
    \/ FinishCrawl

Spec == Init /\ [][Next]_vars

FairSpec == Spec /\ WF_vars(Next)

-----------------------------------------------------------------------------
(* scrape_webpage applied to one document *)

Texts == {<<"x">>, <<SP, NL>>, <<SP, "y", NL, SP, "z", SP>>}

\* The nodes a generated document is made of: a text, an element holding a
\* text, a main region inside a nav element or inside an article.
Parts ==
    {Text(t) : t \in Texts}
    \cup {Elem(tag, <<Text(t)>>) : tag \in {"main", "article", "nav", "p"}, t \in Texts}
    \cup {Elem("nav", <<Elem("main", <<Text(<<"x">>)>>)>>),
          Elem("article", <<Text(<<"y">>), Elem("main", <<Text(<<"x">>)>>)>>)}

SeqsUpTo(S, n) == UNION {[1..k -> S] : k \in 0..n}

\* The generated documents: up to MaxKids parts, bare or inside a body or a
\* header element, after a title element or without one.
Docs ==
    {head \o wrapped :
        head \in {<<>>, <<Elem("title", <<Text(<<"T", SP>>)>>)>>},
        wrapped \in UNION {{kids, <<Elem("body", kids)>>, <<Elem("header", kids)>>} :
                              kids \in SeqsUpTo(Parts, MaxKids)}}

\* main: args after parse_args for a command line that gives the URL only
\* (the defaults of lines 161, 167 and 178)
DefaultArgs == [url |-> PageRoot, max_pages |-> 10, max_depth |-> 2, single |-> FALSE]

ExtractInit ==
    /\ io \in {[in |-> d, out |-> <<>>] : d \in Docs}
    /\ pc = "extract"
    /\ args = DefaultArgs
    /\ site = [p \in {PageRoot, PageA, PageB, PageX} |-> MkEmpty]
    /\ visited = {} /\ to_visit = <<>> /\ results = <<>>
    /\ cur = <<args.url, 0>>
    /\ requests = <<>> /\ popped = <<>> /\ depths = <<>> /\ files = <<>>

\* scrape_webpage(args.url) on a successful response that carries io.in
Extract ==
    /\ pc = "extract"
    /\ io' = [io EXCEPT !.out = scrape_webpage(args.url, Response(FALSE, TRUE, <<>>, io.in), Now)]
    /\ pc' = "extracted"
    /\ UNCHANGED <<args, site, visited, to_visit, results, cur, requests, popped, depths, files>>

ExtractSpec == ExtractInit /\ [][Extract]_vars

-----------------------------------------------------------------------------
(* save_results applied to a result sequence, and its readers *)

SerTitles == {<<"T">>, <<QUOTE, "t", BSLASH>>}

SerTexts == {<<SP, NL>>, <<"a", NL, "b">>, <<BSLASH, "n">>, <<"c", BSLASH, QUOTE>>}

\* Pages with a title and a main region
SerDocs ==
    {<<Elem("title", <<Text(t)>>), Elem("main", <<Text(c)>>)>> :
        t \in SerTitles, c \in SerTexts}

\* The records scrape_webpage returns for these pages
SerRecords ==
    {scrape_webpage(u, Response(FALSE, TRUE, <<>>, d), t) :
        u \in {PageRoot, PageA}, d \in SerDocs, t \in Clock}

SerInit ==
    /\ results \in SeqsUpTo(SerRecords, MaxRecords)
    /\ pc = "save"
    /\ io = NoIO
    /\ args = DefaultArgs
    /\ site = [p \in {PageRoot, PageA, PageB, PageX} |-> MkEmpty]
    /\ visited = {} /\ to_visit = <<>>
    /\ cur = <<args.url, 0>>
    /\ requests = <<>> /\ popped = <<>> /\ depths = <<>> /\ files = <<>>

\* save_results(results, fmt)
SerSave ==
    /\ pc = "save"
    /\ \E fmt \in Formats, now \in Seconds :
        \E scraped_at \in ScrapedAt(fmt, now, Seconds) :
        files' = <<save_results(results, fmt, now, scraped_at)>>
    /\ pc' = "saved"
    /\ UNCHANGED <<io, args, site, visited, to_visit, results, cur, requests, popped, depths>>

\* json.load of the file written in json format
SerParse ==
    /\ pc = "saved"
    /\ files[1].format = "json"
    /\ io' = [io EXCEPT !.out = json_load(files[1].content)]
    /\ pc' = "parsed"
    /\ UNCHANGED <<files, args, site, visited, to_visit, results, cur, requests, popped, depths>>

\* load_scraped_data(filename) of the file written
SerLoad ==
    /\ pc = "saved"
    /\ io' = [io EXCEPT !.out = load_scraped_data(files[1])]
    /\ pc' = "loaded"
    /\ UNCHANGED <<files, args, site, visited, to_visit, results, cur, requests, popped, depths>>

SerNext ==
    \/ SerSave
    \/ SerParse
    \/ SerLoad

SerSpec == SerInit /\ [][SerNext]_vars

-----------------------------------------------------------------------------
(* get_links as scrape_website calls it, on pages of several directories *)

PageDeep == Url(ExHost, <<"d", "p">>, "")
StartDocs == Url(ExHost, <<"docs", "">>, "")

\* The pages links are found on, and the start URLs of the crawls
LinkPages == {PageRoot, PageA, PageDeep, StartDocs}
LinkStarts == StartUrls \cup {StartDocs}

Hrefs ==
    {Rel(<<"b">>, ""), Rel(<<"b">>, "s1"), Rel(<<"b">>, "s2"), RootRel(<<"a">>, ""),
     FragOnly("top"), Abs(OtherHost, <<"x">>, ""), Abs(ExHost, <<"b">>, "y")}

LinksInit ==
    /\ io \in {[in |-> [url |-> u, start_url |-> st, body |-> b], out |-> {}] :
                  u \in LinkPages, st \in LinkStarts, b \in SeqsUpTo(Hrefs, MaxHrefs)}
    /\ pc = "discover"
    /\ args = [DefaultArgs EXCEPT !.url = io.in.start_url]
    /\ site = [p \in {PageRoot, PageA, PageB, PageX} |-> MkEmpty]
    /\ visited = {} /\ to_visit = <<>> /\ results = <<>>
    /\ cur = <<io.in.url, 0>>
    /\ requests = <<>> /\ popped = <<>> /\ depths = <<>> /\ files = <<>>

\* new_links = get_links(url, start_url) on a response that carries the
\* anchors io.in.body
Discover ==
    /\ pc = "discover"
    /\ io' = [io EXCEPT !.out = NewLinks(cur[1], args.url,
                                         Response(FALSE, TRUE, io.in.body, <<>>))]
    /\ pc' = "discovered"
    /\ UNCHANGED <<args, site, visited, to_visit, results, cur, requests, popped, depths, files>>

LinksSpec == LinksInit /\ [][Discover]_vars

-----------------------------------------------------------------------------
(* Several runs of main that save into one directory *)

\* What a run has to save: the record of one page
RunResults ==
    {<<scrape_webpage(u, Response(FALSE, TRUE, <<>>, PageDoc(u)), 0)>> :
        u \in {PageRoot, PageA, PageB}}

RunsInit ==
    /\ files = <<>>
    /\ pc = "runs"
    /\ io = NoIO
    /\ args = DefaultArgs
    /\ site = [p \in {PageRoot, PageA, PageB, PageX} |-> MkEmpty]
    /\ visited = {} /\ to_visit = <<>> /\ results = <<>>
    /\ cur = <<args.url, 0>>
    /\ requests = <<>> /\ popped = <<>> /\ depths = <<>>

\* The next run ends with save_results(results, fmt); each read of the clock
\* gives any of its values, whatever the runs before read. files lists the
\* files written, in the order of the runs.
RunSave ==
    /\ pc = "runs"
    /\ Len(files) < MaxRuns
    /\ \E res \in RunResults, fmt \in Formats, now \in Seconds :
        \E scraped_at \in ScrapedAt(fmt, now, Seconds) :
        /\ results' = res
        /\ files' = Append(files, save_results(res, fmt, now, scraped_at))
    /\ UNCHANGED <<pc, io, args, site, visited, to_visit, cur, requests, popped, depths>>

RunsSpec == RunsInit /\ [][RunSave]_vars

-----------------------------------------------------------------------------
(* One turn of the chat: the URLs of the message are scraped *)

\* A text of one character more than scrape_url returns, in two lines
LongText == [i \in 1..(ContentLimit + 1) |-> IF i = 3 THEN NL ELSE "x"]

\* A text of as many characters as scrape_url returns
FullText == [i \in 1..ContentLimit |-> "y"]

DocLong == <<Elem("title", <<Text(<<"L">>)>>), Elem("main", <<Text(LongText)>>)>>
DocFull == <<Elem("body", <<Text(FullText), Elem("script", <<Text(<<"j">>)>>)>>)>>

\* What the request of scrape_url can do
ChatResponses ==
    {Response(TRUE, FALSE, <<>>, <<>>), Response(FALSE, FALSE, <<>>, DocRoot)}
    \cup {Response(FALSE, TRUE, <<>>, d) : d \in {DocRoot, DocX, DocLong, DocFull}}

\* extract_urls_from_message: the i-th URL of the message, a scheme and a host
ChatUrl(i) == Url(IF i % 2 = 1 THEN ExHost ELSE OtherHost, <<>>, "")

\* io.in holds the responses to the requests for the URLs of the message,
\* io.out the values scrape_url returned, results is scraped_data.
ChatInit ==
    /\ io \in {[in |-> rs, out |-> <<>>, context |-> ScrapedContent(<<>>)] :
                  rs \in SeqsUpTo(ChatResponses, MaxUrls)}
    /\ pc = "chat"
    /\ args = DefaultArgs
    /\ site = [p \in {PageRoot, PageA, PageB, PageX} |-> MkEmpty]
    /\ visited = {} /\ to_visit = <<>> /\ results = <<>>
    /\ cur = <<args.url, 0>>
    /\ requests = <<>> /\ popped = <<>> /\ depths = <<>> /\ files = <<>>

\* main, lines 183-190: one pass of 'for url in urls'
ChatScrape ==
    /\ pc = "chat"
    /\ Len(io.out) < Len(io.in)
    /\ \E i \in {Len(io.out) + 1} :
        \E result \in {scrape_url(ChatUrl(i), io.in[i])} :
            /\ requests' = Append(requests, Request("scrape_url", ChatUrl(i), io.in[i]))
            /\ io' = [io EXCEPT !.out = Append(@, result)]
            /\ results' = IF result.success THEN Append(results, result) ELSE results
    /\ UNCHANGED <<pc, args, site, visited, to_visit, cur, popped, depths, files>>

\* main, lines 192-197: the scraped content of the prompt
ChatContext ==
    /\ pc = "chat"
    /\ Len(io.out) = Len(io.in)
    /\ io' = [io EXCEPT !.context = ScrapedContent(results)]
    /\ pc' = "prompted"
    /\ UNCHANGED <<args, site, visited, to_visit, results, cur, requests, popped, depths, files>>

ChatNext ==
    \/ ChatScrape
    \/ ChatContext

ChatSpec == ChatInit /\ [][ChatNext]_vars

-----------------------------------------------------------------------------
(* Helpers of the properties *)

Crawl == ~args.single

Last(s) == s[Len(s)]

\* The links get_links returns for page u when its request succeeds
LinksOf(u) == get_links(u, args.url, Response(FALSE, TRUE, Body(u), PageDoc(u)))

\* The URLs at link-distance at most k from start_url
RECURSIVE Within(_)
Within(k) ==
    IF k < 0 THEN {}
    ELSE IF k = 0 THEN {args.url}
    ELSE Within(k - 1) \cup UNION {LinksOf(u) : u \in Within(k - 1)}

-----------------------------------------------------------------------------
(* Properties *)

\* C1: in crawl mode with max_pages >= 1, results never holds more than
\* max_pages records.
PageBound ==
    (Crawl /\ args.max_pages >= 1) => Len(results) <= args.max_pages

\* C1 witness: the budget is reached while entries remain in to_visit.
PageBoundWitness ==
    /\ Crawl /\ pc = "while"
    /\ args.max_pages >= 2
    /\ Len(results) = args.max_pages
    /\ to_visit # <<>>

\* C2: no two records of results have the same URL once fragments are
\* stripped.
AtMostOnceRecord ==
    \A i, j \in DOMAIN results :
        StripFragment(results[i].url) = StripFragment(results[j].url) => i = j

\* C3: the depths of the popped entries, and the depths of the appended
\* records, are non-decreasing.
BFSLevelOrder ==
    /\ \A i, j \in DOMAIN popped : i < j => popped[i][2] <= popped[j][2]
    /\ \A i, j \in DOMAIN depths : i < j => depths[i] <= depths[j]

\* C3 witness: entries of depths 0, 1 and 2 were popped, two of them of
\* depth 1, and a depth-2 page was recorded after a depth-1 page.
BFSLevelOrderWitness ==
    /\ Crawl
    /\ Cardinality({i \in DOMAIN popped : popped[i][2] = 1}) >= 2
    /\ Last(popped)[2] = 2
    /\ depths = <<0, 1, 2>>

\* C4: in crawl mode every record's URL lies within max_depth links of
\* start_url.
DepthBound ==
    Crawl => \A i \in DOMAIN results : results[i].url \in Within(args.max_depth)

\* C4 witness: the crawl ended under its page budget and left out a page
\* that is two links away because max_depth is 1.
DepthBoundWitness ==
    /\ Crawl /\ pc = "done"
    /\ args.max_depth = 1
    /\ PageA \in Within(2) \ Within(1)
    /\ 2 <= Len(results) /\ Len(results) < args.max_pages

\* C5: every URL queued, popped, requested or recorded has the network
\* location of start_url.
OriginFiltering ==
    /\ \A i \in DOMAIN to_visit : netloc(to_visit[i][1]) = netloc(args.url)
    /\ \A i \in DOMAIN popped : netloc(popped[i][1]) = netloc(args.url)
    /\ \A i \in DOMAIN requests : netloc(requests[i].url) = netloc(args.url)
    /\ \A i \in DOMAIN results : netloc(results[i].url) = netloc(args.url)

\* C5 witness: the links of a depth-1 page that carries an off-origin link
\* were pushed, and the crawl ran to its end.
OriginFilteringWitness ==
    /\ Crawl /\ pc = "done"
    /\ \E i \in DOMAIN requests :
        /\ requests[i].fn = "get_links"
        /\ requests[i].url = PageA
        /\ ~requests[i].resp.raised
        /\ \E h \in Range(requests[i].resp.body) :
               netloc(urljoin(args.url, h)) # netloc(args.url)
    /\ Len(results) = 3

\* C6: a failed scrape_webpage leaves results, visited and to_visit as they
\* were and returns to the loop test; after it the loop still pops the
\* remaining entries; and every record has a successful scrape_webpage
\* request for its URL.
FailedFetchContained ==
    /\ [][(pc = "scrape" /\ Failed(Last(requests').resp))
            => /\ results' = results
               /\ visited' = visited
               /\ to_visit' = to_visit
               /\ pc' = "while"]_vars
    /\ []((/\ Crawl /\ pc = "while"
           /\ requests # <<>>
           /\ Last(requests).fn = "scrape_webpage"
           /\ Failed(Last(requests).resp)
           /\ to_visit # <<>>)
            => LoopGuard(to_visit, visited, args.max_pages))
    /\ [](\A i \in DOMAIN results :
            \E k \in DOMAIN requests :
                /\ requests[k].fn = "scrape_webpage"
                /\ requests[k].url = results[i].url
                /\ ~Failed(requests[k].resp))

\* C6 witness: the crawl ended; every fetch of page /a failed, with an HTTP
\* error status, and page /b was scraped after that failure.
FailedFetchContainedWitness ==
    /\ Crawl /\ pc = "done"
    /\ Len(results) = 2
    /\ \A i \in DOMAIN results : results[i].url # PageA
    /\ \E i, j \in DOMAIN requests :
        /\ i < j
        /\ requests[i] = Request("scrape_webpage", PageA,
                                 Response(FALSE, FALSE, Body(PageA), PageDoc(PageA)))
        /\ requests[j].fn = "scrape_webpage"
        /\ requests[j].url = PageB
        /\ ~Failed(requests[j].resp)

\* C7: every run reaches DONE, and a crawl with max_pages >= 1 ends with
\* to_visit empty or with max_pages records.
Termination ==
    /\ <>(pc = "done")
    /\ []((Crawl /\ pc = "done" /\ args.max_pages >= 1)
            => (to_visit = <<>> \/ Len(results) = args.max_pages))

\* C7 witness: a crawl ended on its page budget with entries left in
\* to_visit, after a failed request.
TerminationWitness ==
    /\ Crawl /\ pc = "done"
    /\ args.max_pages >= 2
    /\ to_visit # <<>>
    /\ Len(results) = args.max_pages
    /\ NFailures >= 1

\* C8: after a failed scrape_webpage request for a URL, no later request is
\* issued for that URL and no record holds it.
NoRetry ==
    \A i \in DOMAIN requests :
        (requests[i].fn = "scrape_webpage" /\ Failed(requests[i].resp))
            => /\ \A j \in DOMAIN requests : j > i => requests[j].url # requests[i].url
               /\ \A k \in DOMAIN results : results[k].url # requests[i].url

\* C9: a request answered with a non-success status adds no record to
\* results and no entry to to_visit.
NonSuccessIsFailure ==
    [][(/\ Len(requests') > Len(requests)
        /\ ~Last(requests').resp.raised
        /\ ~Last(requests').resp.ok)
          => /\ results' = results
             /\ to_visit' = to_visit]_vars

\* C10: with --single only the given URL is requested, once and by
\* scrape_webpage; nothing is queued or popped; results holds at most one
\* record, for the given URL.
SingleMode ==
    args.single =>
        /\ Len(requests) <= 1
        /\ pc = "done" => Len(requests) = 1
        /\ \A i \in DOMAIN requests :
            requests[i].fn = "scrape_webpage" /\ requests[i].url = args.url
        /\ to_visit = <<>> /\ popped = <<>>
        /\ Len(results) <= 1
        /\ \A i \in DOMAIN results : results[i].url = args.url

\* C10 witness: a --single run with max_pages and max_depth below their
\* ranges recorded a page that carries links.
SingleModeWitness ==
    /\ args.single /\ pc = "done"
    /\ args.max_pages < 1 /\ args.max_depth < 0
    /\ Len(results) = 1
    /\ Body(args.url) # <<>>

\* C11 as stated: every finished invocation has written exactly one file,
\* named scraped_data_<timestamp>.<ext> with the extension of its format.
OneFilePerInvocation ==
    pc = "done" =>
        /\ Len(files) = 1
        /\ files[1].name.prefix = "scraped_data_"
        /\ files[1].name.stamp \in Clock
        /\ \/ files[1].format = "json" /\ files[1].name.ext = "json"
           \/ files[1].format = "txt" /\ files[1].name.ext = "txt"
           \/ files[1].format = "markdown" /\ files[1].name.ext = "md"

\* C11 amended: nothing is written before the end; an invocation that ends
\* with at least one record has written exactly one file, named
\* scraped_data_<timestamp>.<ext> with the extension of its format; an
\* invocation that ends with no record has written no file.
OneFilePerNonEmptyResult ==
    /\ pc # "done" => files = <<>>
    /\ (pc = "done" /\ results = <<>>) => files = <<>>
    /\ (pc = "done" /\ results # <<>>) =>
        /\ Len(files) = 1
        /\ files[1].name.prefix = "scraped_data_"
        /\ files[1].name.stamp \in Clock
        /\ \/ files[1].format = "json" /\ files[1].name.ext = "json"
           \/ files[1].format = "txt" /\ files[1].name.ext = "txt"
           \/ files[1].format = "markdown" /\ files[1].name.ext = "md"

\* C11 witness: a crawl with a failed request wrote its two records to a
\* markdown file.
OneFilePerNonEmptyResultWitness ==
    /\ Crawl /\ pc = "done"
    /\ Len(results) = 2
    /\ NFailures >= 1
    /\ Len(files) = 1
    /\ files[1].format = "markdown"
    /\ files[1].name.ext = "md"

\* The URLs of the records of res, in order
UrlsOf(res) == [i \in DOMAIN res |-> res[i].url]

\* C12: in a crawl with max_pages = 1 and max_depth >= 0 whose first request,
\* the fetch of start_url, succeeds, results is the single record of start_url
\* from then on.
MaxPagesOne ==
    (/\ Crawl
     /\ args.max_pages = 1 /\ args.max_depth >= 0
     /\ requests # <<>>
     /\ ~Failed(requests[1].resp))
        => UrlsOf(results) = <<args.url>>

\* C12 witness: a crawl with max_pages = 1 and max_depth = 2 ended with one
\* record and left the links of the start page in to_visit.
MaxPagesOneWitness ==
    /\ Crawl /\ pc = "done"
    /\ args.max_pages = 1 /\ args.max_depth = 2
    /\ Len(results) = 1
    /\ Len(to_visit) >= 2

\* C13: in the scenario of a start page https://ex.test/ with the links /a,
\* /b and https://other.test/x, max_depth = 1, a budget of at least three
\* pages and no failure, the records are /, /a, /b in that order.
DiscoveryOrder ==
    (/\ Crawl /\ pc = "done"
     /\ args.url = PageRoot
     /\ site[PageRoot] = MkHome
     /\ args.max_depth = 1 /\ args.max_pages >= 3
     /\ NFailures = 0)
        => UrlsOf(results) = <<PageRoot, PageA, PageB>>

\* The tree that remains after the removal of script, style, nav, footer and
\* header elements
RECURSIVE Kept(_)
Kept(nodes) ==
    [i \in DOMAIN SelectSeq(nodes, LAMBDA n :
                      n.tag \notin {"script", "style", "nav", "footer", "header"}) |->
        LET n == SelectSeq(nodes, LAMBDA m :
                      m.tag \notin {"script", "style", "nav", "footer", "header"})[i]
        IN  [n EXCEPT !.kids = Kept(n.kids)]]

\* The first region present in the order main, article, body, whole tree
RegionOf(tree) ==
    IF Find(tree, "main") # NoNode THEN <<Find(tree, "main")>>
    ELSE IF Find(tree, "article") # NoNode THEN <<Find(tree, "article")>>
    ELSE IF Find(tree, "body") # NoNode THEN <<Find(tree, "body")>>
    ELSE tree

\* The characters of s that are not white space, in order
Words(s) == SelectSeq(s, LAMBDA c : c \notin Whitespace)

\* The characters of all text nodes under nodes, in document order
CharsUnder(nodes) == Join(Strings(nodes), <<>>)

NoRegion(tree) ==
    Find(tree, "main") = NoNode /\ Find(tree, "article") = NoNode /\ Find(tree, "body") = NoNode

\* C16 as stated: the content of the record is made of the words of the first
\* region present, in order, and a document without main, article and body
\* in which a text node remains yields a non-empty content.
ContentFallbackAnyText ==
    pc = "extracted" =>
        /\ Words(io.out.content) = Words(CharsUnder(RegionOf(Kept(io.in))))
        /\ (NoRegion(Kept(io.in)) /\ Strings(Kept(io.in)) # <<>>) => io.out.content # <<>>

\* C16 amended: the content of the record is made of the words of the first
\* region present, in order, with no white space at either end; a document
\* without main, article and body in which a text node with a character
\* other than white space remains yields a non-empty content.
ContentFallback ==
    pc = "extracted" =>
        /\ Words(io.out.content) = Words(CharsUnder(RegionOf(Kept(io.in))))
        /\ io.out.content = Strip(io.out.content)
        /\ io.out.length = Len(io.out.content)
        /\ (NoRegion(Kept(io.in)) /\ Words(CharsUnder(Kept(io.in))) # <<>>)
              => io.out.content # <<>>

\* C16 witness: the only main region of the document was inside a nav
\* element, no region remains, and the content is the remaining text.
ContentFallbackWitness ==
    /\ pc = "extracted"
    /\ Find(io.in, "main") # NoNode
    /\ NoRegion(Kept(io.in))
    /\ io.out.content = <<"y", NL, "z">>

\* The characters of a sequence
CharsOf(chars) == {chars[i] : i \in DOMAIN chars}

\* C14: the file save_results writes in json format for any result sequence,
\* parsed back, is a sequence of the same length whose i-th item has the url,
\* title, content and length of the i-th record.
JsonRoundTrip ==
    pc = "parsed" =>
        /\ Len(io.out) = Len(results)
        /\ \A i \in DOMAIN results :
            /\ io.out[i]["url"] = UrlString(results[i].url)
            /\ io.out[i]["title"] = results[i].title
            /\ io.out[i]["content"] = results[i].content
            /\ io.out[i]["length"] = results[i].length

\* C14 witness: two different records were parsed back, the first with a
\* quote and a backslash in its title and a backslash in its content.
JsonRoundTripWitness ==
    /\ pc = "parsed"
    /\ Len(results) = 2
    /\ results[1] # results[2]
    /\ {QUOTE, BSLASH} \subseteq CharsOf(results[1].title)
    /\ BSLASH \in CharsOf(results[1].content)
    /\ Len(io.out) = 2

\* The context load_scraped_data is to build from the records of a json file
ExpectedContext(res) ==
    Join([i \in DOMAIN res |->
            <<"Source: ">> \o UrlString(res[i].url) \o <<NL>>
            \o <<"Title: ">> \o res[i].title \o <<NL>>
            \o res[i].content], <<NL, NL>>)

\* C15: load_scraped_data on the file save_results wrote for a non-empty
\* result sequence returns a context in each of the three formats: for json
\* the url, title and content of every record in record order, for txt and
\* markdown the whole text of the file.
Interoperable ==
    (pc = "loaded" /\ results # <<>>) =>
        /\ io.out.kind = "context"
        /\ files[1].format = "json" => io.out.text = ExpectedContext(results)
        /\ files[1].format = "txt" => io.out.text = TxtFile(results)
        /\ files[1].format = "markdown" => io.out.text = files[1].content

\* C15 witness: a markdown file of two records was loaded and returned whole.
InteroperableWitness ==
    /\ pc = "loaded"
    /\ Len(results) = 2
    /\ files[1].format = "markdown"
    /\ files[1].name.ext = "md"
    /\ io.out.kind = "context"
    /\ io.out.text # <<>>

\* C17: no URL is requested over the network more than once during a run,
\* counting the requests of scrape_webpage and of get_links alike.
OneRequestPerUrl ==
    \A i, j \in DOMAIN requests : requests[i].url = requests[j].url => i = j

\* C18: to_visit never holds two entries with the same URL and never holds a
\* URL that is in visited.
InsertionDedup ==
    /\ \A i, j \in DOMAIN to_visit : to_visit[i][1] = to_visit[j][1] => i = j
    /\ \A i \in DOMAIN to_visit : to_visit[i][1] \notin visited

\* C19: once a crawl holds max_pages records, no step issues a request or
\* pushes an entry onto to_visit.
StopAtBudget ==
    [][(Crawl /\ args.max_pages >= 1 /\ Len(results) >= args.max_pages)
          => (requests' = requests /\ Len(to_visit') <= Len(to_visit))]_vars

\* C20: for max_depth >= 0 every entry held in to_visit, and every entry
\* popped from it, has a depth in 0..max_depth; links are pushed only from a
\* page whose depth is below max_depth, and an entry of depth d > 0 follows the
\* pop of an entry of depth d - 1 < max_depth.
FrontierDepth ==
    (Crawl /\ args.max_depth >= 0) =>
        /\ \A i \in DOMAIN to_visit : to_visit[i][2] \in 0..args.max_depth
        /\ \A i \in DOMAIN popped : popped[i][2] \in 0..args.max_depth
        /\ pc = "links" => cur[2] < args.max_depth
        /\ \A i \in DOMAIN to_visit :
            to_visit[i][2] > 0 =>
                \E j \in DOMAIN popped :
                    /\ popped[j][2] + 1 = to_visit[i][2]
                    /\ popped[j][2] < args.max_depth

\* C20 witness: with max_depth 2 a page of depth 1 was expanded and an entry
\* of depth 2 waits in to_visit, while a page of depth 2 was popped and not
\* expanded.
FrontierDepthWitness ==
    /\ Crawl /\ args.max_depth = 2
    /\ pc = "while"
    /\ \E i \in DOMAIN to_visit : to_visit[i][2] = 2
    /\ \E j \in DOMAIN popped : popped[j][2] = 2
    /\ \E k \in DOMAIN requests : requests[k].fn = "get_links" /\ requests[k].url # args.url

\* The link an href stands for when it is resolved against base
Resolved(base, href) == StripFragment(urljoin(base, href))

\* C21: the links get_links returns to scrape_website are the hrefs of the
\* page resolved against start_url, whatever the URL of the page, and kept
\* when their network location is that of start_url.
ResolvedAgainstStart ==
    pc = "discovered" =>
        io.out = {Resolved(io.in.start_url, h) :
                     h \in {x \in Range(io.in.body) :
                               netloc(urljoin(io.in.start_url, x)) = netloc(io.in.start_url)}}

\* C21 witness: a relative href found on a page of another directory than
\* start_url gave a link in the directory of start_url, which is not the
\* link it gives against the URL of its page.
ResolvedAgainstStartWitness ==
    /\ pc = "discovered"
    /\ Front(io.in.url.path) # Front(io.in.start_url.path)
    /\ \E i \in DOMAIN io.in.body :
        /\ io.in.body[i].kind = "rel"
        /\ Resolved(io.in.start_url, io.in.body[i]) \in io.out
        /\ Resolved(io.in.url, io.in.body[i]) \notin io.out

\* The entries a step appended to to_visit
Pushed(old, new) == SubSeq(new, Len(old) + 1, Len(new))

\* C22: the entries pushed onto to_visit when the links of a page are
\* expanded carry no fragment and are pairwise different, so hrefs that differ
\* only in their fragment give one entry.
FragmentStripped ==
    [][pc = "links" =>
        LET new == Pushed(to_visit, to_visit') IN
        /\ \A i \in DOMAIN new : new[i][1].frag = ""
        /\ \A i, j \in DOMAIN new : new[i][1] = new[j][1] => i = j]_vars

\* C22 witness: a page with two hrefs that differ only in their fragment was
\* expanded last, and to_visit holds their link once, without a fragment.
FragmentStrippedWitness ==
    /\ Crawl /\ pc = "while" /\ requests # <<>>
    /\ Last(requests).fn = "get_links"
    /\ LET body == Last(requests).resp.body IN
       \E i, j \in DOMAIN body :
           /\ body[i].frag # body[j].frag
           /\ body[i].frag # "" /\ body[j].frag # ""
           /\ [body[i] EXCEPT !.frag = ""] = [body[j] EXCEPT !.frag = ""]
           /\ Cardinality({k \in DOMAIN to_visit :
                              to_visit[k][1] = Resolved(args.url, body[i])}) = 1
           /\ Resolved(args.url, body[i]).frag = ""

\* C23: no two runs write to the same filename.
NoFilenameCollision ==
    \A i, j \in DOMAIN files : files[i].name = files[j].name => i = j

\* C24 as stated: in every state of a crawl visited is the set of the URLs of
\* the records of results, and has as many members as results has records.
VisitedIsRecorded ==
    Crawl =>
        /\ visited = {results[i].url : i \in DOMAIN results}
        /\ Cardinality(visited) = Len(results)

\* C24 amended: in every state of a crawl but the one between
\* results.append(data) and visited.add(url), visited is the set of the URLs
\* of the records of results and has as many members as results has records;
\* between the two statements results holds one record more, its last, which
\* is the record of the url being scraped, and that url is not in visited.
VisitedIsRecordedOutsideAppend ==
    Crawl =>
        /\ pc # "visit" =>
            /\ visited = {results[i].url : i \in DOMAIN results}
            /\ Cardinality(visited) = Len(results)
        /\ pc = "visit" =>
            /\ results # <<>>
            /\ Last(results).url = cur[1]
            /\ cur[1] \notin visited
            /\ visited = {results[i].url : i \in DOMAIN Front(results)}
            /\ Cardinality(visited) = Len(results) - 1

\* C24 witness: a crawl went on after the scrape of a page failed; that page
\* is neither in visited nor in results, which hold the same two URLs after
\* visited.add(url) added the second.
VisitedIsRecordedOutsideAppendWitness ==
    /\ Crawl /\ pc \in {"while", "links"}
    /\ Len(results) = 2
    /\ Cardinality(visited) = 2
    /\ Last(results).url = cur[1]
    /\ \E i \in DOMAIN requests :
        /\ requests[i].fn = "scrape_webpage"
        /\ Failed(requests[i].resp)
        /\ requests[i].url \notin visited

\* C25: in crawl mode the first request is the scrape of start_url; if it
\* fails, no other request follows, nothing is queued and results stays empty;
\* and the first record of a non-empty results is the record of start_url.
StartPageGate ==
    Crawl =>
        /\ requests # <<>> =>
            /\ requests[1].fn = "scrape_webpage"
            /\ requests[1].url = args.url
        /\ (requests # <<>> /\ Failed(requests[1].resp)) =>
            /\ Len(requests) = 1
            /\ results = <<>>
            /\ to_visit = <<>>
            /\ pc \in {"while", "done"}
        /\ results # <<>> => results[1].url = args.url

\* C25 witness: a crawl with room for more pages, on a site whose start page
\* has links, ended with no record and no file after the one failed request
\* for start_url.
StartPageGateWitness ==
    /\ Crawl /\ pc = "done"
    /\ args.max_pages >= 2 /\ args.max_depth >= 1
    /\ site[PageRoot] = MkHome
    /\ Len(requests) = 1
    /\ ~requests[1].resp.raised /\ ~requests[1].resp.ok
    /\ results = <<>>
    /\ files = <<>>

\* C26: a crawl in which no request failed, on a site with at most max_pages
\* URLs within max_depth links of start_url, ends with a record for each of
\* these URLs and for no other.
CompleteUnderBudget ==
    (/\ Crawl /\ pc = "done"
     /\ NFailures = 0
     /\ Cardinality(Within(args.max_depth)) <= args.max_pages)
        => {results[i].url : i \in DOMAIN results} = Within(args.max_depth)

\* C26 witness: such a crawl with max_depth 1 ended under its budget with
\* the records of start_url and of the pages it links to, on a site that has
\* a further page two links away.
CompleteUnderBudgetWitness ==
    /\ Crawl /\ pc = "done"
    /\ NFailures = 0
    /\ args.max_depth = 1
    /\ Within(2) # Within(1)
    /\ Cardinality(Within(1)) >= 2
    /\ Cardinality(Within(1)) < args.max_pages
    /\ Len(results) = Cardinality(Within(1))

\* C27: a crawl with max_pages < 1 or max_depth < 0 issues no request, holds
\* no record, writes no file and takes no other step than the start of
\* scrape_website, the pop of the seed and the return.
OutOfRangeLimits ==
    (Crawl /\ (args.max_pages < 1 \/ args.max_depth < 0)) =>
        /\ requests = <<>>
        /\ results = <<>>
        /\ files = <<>>
        /\ pc \in {"main", "while", "done"}

\* C27 witness: a crawl with max_depth -1 and a page budget ended after it
\* popped and skipped the seed, without a request and without a file.
OutOfRangeLimitsWitness ==
    /\ Crawl /\ pc = "done"
    /\ args.max_depth < 0 /\ args.max_pages >= 1
    /\ popped = <<<<args.url, 0>>>>
    /\ requests = <<>>
    /\ results = <<>>
    /\ files = <<>>

\* C28: when the request of get_links raises for a page that was scraped,
\* the record of the page stays in results and its URL in visited, nothing is
\* pushed onto to_visit, and the loop goes on with its next test.
LinkFailureContained ==
    [][(/\ pc = "links"
        /\ Len(requests') > Len(requests)
        /\ Last(requests').resp.raised)
          => /\ Last(requests').fn = "get_links"
             /\ results' = results
             /\ visited' = visited
             /\ to_visit' = to_visit
             /\ pc' = "while"
             /\ cur[1] \in visited'
             /\ \E i \in DOMAIN results' : results'[i].url = cur[1]]_vars

\* C28 witness: the get_links request of a page with links raised, the page
\* is recorded and visited, and the next request was the scrape of another
\* page, which gave the next record.
LinkFailureContainedWitness ==
    /\ Crawl
    /\ \E k \in DOMAIN requests :
        /\ k < Len(requests)
        /\ requests[k].fn = "get_links"
        /\ requests[k].resp.raised
        /\ Body(requests[k].url) # <<>>
        /\ requests[k].url \in visited
        /\ requests[k + 1].fn = "scrape_webpage"
        /\ requests[k + 1].url # requests[k].url
        /\ ~Failed(requests[k + 1].resp)
        /\ \E i \in DOMAIN results :
            /\ i < Len(results)
            /\ results[i].url = requests[k].url
            /\ results[i + 1].url = requests[k + 1].url

\* The text scrape_url extracts from the i-th response of the turn
FullTextOf(i) == ContentOf(Decompose(io.in[i].doc))

\* The values in returned that report a success, in order
Successes(returned) == SelectSeq(returned, LAMBDA r : r.success)

\* C29: every value scrape_url returns is either a success with url, title,
\* content and length, where content is the first ContentLimit characters of
\* the extracted text and length the size of the whole text, or a failure with
\* url and error only; scraped_data holds the successes and nothing else, and
\* the context of the prompt is built from scraped_data.
ResultOrError ==
    /\ \A i \in DOMAIN io.out :
        /\ io.out[i].url = ChatUrl(i)
        /\ Failed(io.in[i]) =>
            /\ ~io.out[i].success
            /\ DOMAIN io.out[i] = {"success", "url", "error"}
        /\ ~Failed(io.in[i]) =>
            /\ io.out[i].success
            /\ DOMAIN io.out[i] = {"success", "url", "title", "content", "length"}
            /\ Len(io.out[i].content) <= ContentLimit
            /\ io.out[i].content = Prefix(FullTextOf(i), ContentLimit)
            /\ io.out[i].length = Len(FullTextOf(i))
            /\ io.out[i].length >= Len(io.out[i].content)
    /\ results = Successes(io.out)
    /\ pc = "prompted" => io.context = ScrapedContent(Successes(io.out))

\* C29 witness: a turn with a failed and a successful request ended; the
\* success has a text longer than ContentLimit, cut in content and counted
\* whole in length, and it alone is in scraped_data and in the context.
ResultOrErrorWitness ==
    /\ pc = "prompted"
    /\ Len(io.out) = 2
    /\ ~io.out[1].success
    /\ io.out[2].success
    /\ Len(io.out[2].content) = ContentLimit
    /\ io.out[2].length = ContentLimit + 1
    /\ results = <<io.out[2]>>
    /\ io.context.kind = "context"

====
